---------------------------- MODULE Spec2Model ----------------------------
(***************************************************************************)
(* Model of rackspace/lb/v1/lbs/results.go: the LoadBalancer result        *)
(* schema and the three decode entry points commonResult.Extract,          *)
(* ExtractLBs and LBPage.IsEmpty.                                          *)
(*                                                                         *)
(* A response body is a generic document (the interface{} tree a JSON      *)
(* parser produces).  Documents are tagged records:                        *)
(*   [k |-> "null"]              JSON null / a nil interface               *)
(*   [k |-> "str",  s |-> ...]   string                                    *)
(*   [k |-> "num",  h |-> ...]   float64; h is TWICE the number, so that   *)
(*                               h = 3 is 1.5 and int() truncation shows   *)
(*   [k |-> "bool", b |-> ...]   bool                                      *)
(*   [k |-> "obj",  m |-> ...]   map[string]interface{}, a function        *)
(*   [k |-> "arr",  a |-> ...]   []interface{}, a sequence                 *)
(***************************************************************************)
EXTENDS Integers, Sequences, FiniteSets, TLC

\* Per request flow c: pc[c] its position, op[c] the entry point it called,
\* in[c] the argument, err[c] the local `err`, ret[c] what was returned,
\* decoded[c] whether mapstructure.Decode ran in the call.  response and resp
\* are the storage of the locals `response` (Extract) and `resp`
\* (ExtractLBs), indexed by the slot an invocation's locals live in.
VARIABLES pc, op, in, response, resp, err, ret, decoded

vars == <<pc, op, in, response, resp, err, ret, decoded>>

-----------------------------------------------------------------------------
(* Bounds of the model.                                                    *)

\* Longest "loadBalancers" array enumerated in a page body.
MaxLBs == 2

\* Number of concurrent request flows in SpecConc.
NumCallers == 2

-----------------------------------------------------------------------------
(* Documents.                                                              *)

Null == [k |-> "null"]
Str(s) == [k |-> "str", s |-> s]
Num(n) == [k |-> "num", h |-> 2 * n]
Half(h) == [k |-> "num", h |-> h]
Bool(b) == [k |-> "bool", b |-> b]
Obj(m) == [k |-> "obj", m |-> m]
Arr(a) == [k |-> "arr", a |-> a]
EmptyMap == [x \in {} |-> Null]

-----------------------------------------------------------------------------
(* The schema: Go types of results.go as descriptors.  A struct field is   *)
(* [name, tag, type]; tag is its mapstructure tag, "" when it has none.    *)

TString == [k |-> "string"]
TInt == [k |-> "int"]
TBool == [k |-> "bool"]
TSlice(elem) == [k |-> "slice", elem |-> elem]
TStruct(fields) == [k |-> "struct", fields |-> fields]
F(name, tag, type) == [name |-> name, tag |-> tag, type |-> type]

\* type Protocol string / type Algorithm string / type Status string:
\* named string types, no decode hook and no validation.
Protocol == TString
Algorithm == TString
Status == TString

Datetime == TStruct(<<F("Time", "", TString)>>)

\* Faulty variant: IPv4Private tagged after its Go name.
SourceAddrsMistagged ==
    TStruct(<<F("IPv4Public", "ipv4Public", TString),
              F("IPv4Private", "ipv4Private", TString),
              F("IPv6Public", "ipv6Public", TString),
              F("IPv6Private", "ipv6Servicenet", TString)>>)

SourceAddrs ==
    TStruct(<<F("IPv4Public", "ipv4Public", TString),
              F("IPv4Private", "ipv4Servicenet", TString),
              F("IPv6Public", "ipv6Public", TString),
              F("IPv6Private", "ipv6Servicenet", TString)>>)

SessionPersistence == TStruct(<<F("Type", "persistenceType", TString)>>)

ConnectionThrottle ==
    TStruct(<<F("MinConns", "minConnections", TInt),
              F("MaxConns", "maxConnections", TInt),
              F("MaxConnRate", "maxConnectionRate", TInt),
              F("RateInterval", "rateInterval", TInt)>>)

ConnectionLogging == TStruct(<<F("Enabled", "", TBool)>>)

Cluster == TStruct(<<F("Name", "", TString)>>)

\* vips.VIP and nodes.Node live in sibling packages; only their being
\* structs with an integer identity is used here.
VIP == TStruct(<<F("ID", "", TInt)>>)
Node == TStruct(<<F("ID", "", TInt)>>)

LoadBalancer ==
    TStruct(<<F("Name", "", TString),
              F("ID", "", TInt),
              F("Protocol", "", Protocol),
              F("Algorithm", "", Algorithm),
              F("Status", "", Status),
              F("NodeCount", "nodeCount", TInt),
              F("VIPs", "virtualIps", TSlice(VIP)),
              F("Created", "", Datetime),
              F("Updated", "", Datetime),
              F("Port", "", TInt),
              F("HalfClosed", "", TBool),
              F("Timeout", "", TInt),
              F("Cluster", "", Cluster),
              F("Nodes", "", TSlice(Node)),
              F("ConnectionLogging", "", ConnectionLogging),
              F("SessionPersistence", "", SessionPersistence),
              F("ConnectionThrottle", "", ConnectionThrottle),
              F("SourceAddrs", "sourceAddresses", SourceAddrs)>>)

\* var response struct { LB LoadBalancer `mapstructure:"loadBalancer"` }
ResponseT == TStruct(<<F("LB", "loadBalancer", LoadBalancer)>>)

\* var resp struct { LBs []LoadBalancer `mapstructure:"loadBalancers"` }
\* Faulty variant: the tag of the single-resource envelope.
RespTMistagged == TStruct(<<F("LBs", "loadBalancer", TSlice(LoadBalancer))>>)

RespT == TStruct(<<F("LBs", "loadBalancers", TSlice(LoadBalancer))>>)

-----------------------------------------------------------------------------
(* Go values.  A struct value is a function from its field names.          *)

FieldIdx(t, name) == CHOOSE i \in 1..Len(t.fields) : t.fields[i].name = name
FieldNames(t) == {t.fields[i].name : i \in 1..Len(t.fields)}

RECURSIVE Zero(_)
Zero(t) ==
    CASE t.k = "string" -> ""
      [] t.k = "int" -> 0
      [] t.k = "bool" -> FALSE
      [] t.k = "slice" -> <<>>
      [] t.k = "struct" ->
            [n \in FieldNames(t) |-> Zero(t.fields[FieldIdx(t, n)].type)]


-----------------------------------------------------------------------------
(* mapstructure.Decode, as results.go calls it (default configuration: no  *)
(* weak typing, unused keys allowed, no decode hook).                      *)

\* Lower-casing of the key spellings that occur in the schema and in the
\* enumerated documents; every other spelling used is already lower case.
LowerTab ==
    [Name |-> "name", ID |-> "id", Id |-> "id", Protocol |-> "protocol",
     Algorithm |-> "algorithm", Status |-> "status",
     NodeCount |-> "nodecount", nodeCount |-> "nodecount",
     VIPs |-> "vips", virtualIps |-> "virtualips",
     Created |-> "created", Updated |-> "updated", Port |-> "port",
     HalfClosed |-> "halfclosed", halfClosed |-> "halfclosed",
     Timeout |-> "timeout", Cluster |-> "cluster", Nodes |-> "nodes",
     ConnectionLogging |-> "connectionlogging",
     connectionLogging |-> "connectionlogging",
     SessionPersistence |-> "sessionpersistence",
     sessionPersistence |-> "sessionpersistence",
     ConnectionThrottle |-> "connectionthrottle",
     connectionThrottle |-> "connectionthrottle",
     SourceAddrs |-> "sourceaddrs", sourceAddresses |-> "sourceaddresses",
     Time |-> "time", Enabled |-> "enabled",
     persistenceType |-> "persistencetype",
     minConnections |-> "minconnections",
     maxConnections |-> "maxconnections",
     maxConnectionRate |-> "maxconnectionrate",
     rateInterval |-> "rateinterval",
     ipv4Public |-> "ipv4public", ipv4Servicenet |-> "ipv4servicenet",
     ipv6Public |-> "ipv6public", ipv6Servicenet |-> "ipv6servicenet",
     loadBalancer |-> "loadbalancer", loadBalancers |-> "loadbalancers",
     LB |-> "lb", LBs |-> "lbs"]

Lower(s) == IF s \in DOMAIN LowerTab THEN LowerTab[s] ELSE s

\* strings.EqualFold
EqualFold(a, b) == Lower(a) = Lower(b)

\* The map key a struct field is read from: its mapstructure tag when it
\* has one, its Go name otherwise.
KeyName(f) == IF f.tag # "" THEN f.tag ELSE f.name

\* The key of map m that feeds the field keyed `name`: the exact spelling
\* first, otherwise a key equal to it under case folding.  The result is
\* the empty set when no key matches.  (When several keys match only under
\* folding the library takes the first in map-iteration order; the
\* documents enumerated below never hold two such keys.)
Lookup(m, name) ==
    IF name \in DOMAIN m
    THEN {name}
    ELSE LET c == {key \in DOMAIN m : EqualFold(key, name)}
         IN  IF c = {} THEN {} ELSE {CHOOSE key \in c : TRUE}

\* int(f) of a float64 given as twice its value: truncation toward zero.
Trunc(h) == IF h >= 0 THEN h \div 2 ELSE -((-h) \div 2)

RECURSIVE Decode(_, _, _)
RECURSIVE DecodeFields(_, _, _, _)
RECURSIVE DecodeElems(_, _, _)

\* Every decode operator writes val in place, so `cur` is the value held
\* before and is what remains where nothing is written.  errs counts the
\* entries of the returned *mapstructure.Error (0: a nil error).

\* A string field (Name, and the named string types Protocol, Algorithm,
\* Status): the document's string is stored as it is.
\* Faulty variant: the string is normalised to upper case.
UpperTab == [tcp |-> "TCP", Pending_Update |-> "PENDING_UPDATE"]

DecodeStringNormalised(data, cur) ==
    IF data.k = "str"
    THEN [val |-> IF data.s \in DOMAIN UpperTab
                  THEN UpperTab[data.s]
                  ELSE data.s,
          errs |-> 0]
    ELSE [val |-> cur, errs |-> 1]

DecodeString(data, cur) ==
    IF data.k = "str"
    THEN [val |-> data.s, errs |-> 0]
    ELSE [val |-> cur, errs |-> 1]

\* An int field: a float64 is converted with int().
DecodeInt(data, cur) ==
    IF data.k = "num"
    THEN [val |-> Trunc(data.h), errs |-> 0]
    ELSE [val |-> cur, errs |-> 1]

DecodeBool(data, cur) ==
    IF data.k = "bool"
    THEN [val |-> data.b, errs |-> 0]
    ELSE [val |-> cur, errs |-> 1]

\* A struct field, and the top-level target: the document must be a map.
DecodeStruct(t, data, cur) ==
    IF data.k = "obj"
    THEN DecodeFields(t, 1, data.m, cur)
    ELSE [val |-> cur, errs |-> 1]

\* A slice field: the document must be an array.
DecodeSlice(t, data, cur) ==
    IF data.k = "arr"
    THEN DecodeElems(t.elem, data.a, 1)
    ELSE [val |-> cur, errs |-> 1]

\* decode(data, val): a nil document writes nothing and is no error.
Decode(t, data, cur) ==
    IF data.k = "null"
    THEN [val |-> cur, errs |-> 0]
    ELSE CASE t.k = "string" -> DecodeString(data, cur)
           [] t.k = "int" -> DecodeInt(data, cur)
           [] t.k = "bool" -> DecodeBool(data, cur)
           [] t.k = "struct" -> DecodeStruct(t, data, cur)
           [] t.k = "slice" -> DecodeSlice(t, data, cur)

\* Fields i.. of struct type t from map m; a field with no matching key is
\* skipped and keeps what it held.
DecodeFields(t, i, m, cur) ==
    IF i > Len(t.fields)
    THEN [val |-> cur, errs |-> 0]
    ELSE LET f == t.fields[i]
             hit == Lookup(m, KeyName(f))
             one == IF hit = {}
                    THEN [val |-> cur[f.name], errs |-> 0]
                    ELSE Decode(f.type, m[CHOOSE key \in hit : TRUE],
                                cur[f.name])
             rest == DecodeFields(t, i + 1, m,
                                  [cur EXCEPT ![f.name] = one.val])
         IN  [val |-> rest.val, errs |-> one.errs + rest.errs]

\* Elements i.. of array a into a fresh slice of the same length, in order.
DecodeElems(elem, a, i) ==
    IF i > Len(a)
    THEN [val |-> <<>>, errs |-> 0]
    ELSE LET one == Decode(elem, a[i], Zero(elem))
             rest == DecodeElems(elem, a, i + 1)
         IN  [val |-> <<one.val>> \o rest.val,
              errs |-> one.errs + rest.errs]

-----------------------------------------------------------------------------
(* Errors, results and pages.                                              *)

NoErr == [kind |-> "nil"]
TransportErr(id) == [kind |-> "transport", id |-> id]
\* The *mapstructure.Error a failed decode returns, n entries long.
DecodeErr(n) == [kind |-> "decode", n |-> n]
ErrOf(errs) == IF errs = 0 THEN NoErr ELSE DecodeErr(errs)

NilPtr == [ptr |-> "nil"]
Ptr(slot) == [ptr |-> "slot", slot |-> slot]

\* gophercloud.Result: Body and Err.
Result(body, e) == [Body |-> body, Err |-> e]
\* A pagination.Page: its dynamic type and its Body.
Page(type, body) == [type |-> type, Body |-> body]

NoInput == [none |-> TRUE]
NoRet == [none |-> TRUE]
Unalloc == [unalloc |-> TRUE]

-----------------------------------------------------------------------------
(* The documents enumerated as inputs.                                     *)

Set(doc, key, v) == Obj((key :> v) @@ doc.m)
Remove(doc, key) == Obj([x \in DOMAIN doc.m \ {key} |-> doc.m[x]])

\* A well-formed element carrying every documented key.
FullLB ==
    Obj([id |-> Num(2000), name |-> Str("sample-loadbalancer"),
         protocol |-> Str("HTTP"), algorithm |-> Str("ROUND_ROBIN"),
         status |-> Str("ACTIVE"), nodeCount |-> Num(1),
         virtualIps |-> Arr(<<Obj([id |-> Num(1000)]),
                              Obj([id |-> Num(1001)])>>),
         created |-> Obj([time |-> Str("2010-11-30T03:23:42Z")]),
         updated |-> Obj([time |-> Str("2010-11-30T03:23:44Z")]),
         port |-> Num(80), halfClosed |-> Bool(TRUE), timeout |-> Num(60),
         cluster |-> Obj([name |-> Str("c1.dfw1")]),
         nodes |-> Arr(<<Obj([id |-> Num(1041)])>>),
         connectionLogging |-> Obj([enabled |-> Bool(TRUE)]),
         sessionPersistence |->
             Obj([persistenceType |-> Str("HTTP_COOKIE")]),
         connectionThrottle |->
             Obj([minConnections |-> Num(10), maxConnections |-> Num(100),
                  maxConnectionRate |-> Num(50), rateInterval |-> Num(60)]),
         sourceAddresses |->
             Obj([ipv4Public |-> Str("10.12.99.28"),
                  ipv4Servicenet |-> Str("10.0.0.0"),
                  ipv6Public |-> Str("2001:4801:79f1:1::1/64"),
                  ipv6Servicenet |-> Str("fd00::1")])])

\* A well-formed element with part of the keys only.
PartLB ==
    Obj([id |-> Num(12345), name |-> Str("lb-test"), protocol |-> Str("TCP"),
         algorithm |-> Str("RANDOM"), status |-> Str("ACTIVE"),
         nodeCount |-> Num(2), port |-> Num(80), timeout |-> Num(30)])

\* An element without "algorithm" and "timeout", with a key no field reads.
SparseLB ==
    Obj([id |-> Num(7), name |-> Str("lb-sparse"), protocol |-> Str("UDP"),
         extra |-> Str("x")])

WireKeys == DOMAIN FullLB.m

\* Keys an edit may add: one no field reads, and the Go spellings of two
\* untagged fields (an exact match, which wins over "name" / "id").
ExtraKeys == {"extra", "Name", "ID"}

\* Values an edit puts under a key: every document kind, strings inside and
\* outside the documented vocabularies, whole and fractional numbers.
Probes ==
    {Null, Str(""), Str("TCP"), Str("tcp"), Str("QUIC"), Str("RANDOM"),
     Str("Pending_Update"), Num(0), Num(7), Half(3), Half(-3),
     Bool(FALSE), Bool(TRUE), Obj(EmptyMap), Obj([extra |-> Num(1)]),
     Obj([time |-> Str("t")]), Obj([id |-> Str("x")]), Arr(<<>>),
     Arr(<<Obj([id |-> Num(1)])>>), Arr(<<Str("x")>>)}

LBDocs ==
    {FullLB, PartLB, SparseLB, Obj(EmptyMap)}
        \cup {Set(FullLB, key, v) : key \in WireKeys \cup ExtraKeys,
                                    v \in Probes}
        \cup {Set(PartLB, key, v) : key \in ExtraKeys, v \in Probes}
        \cup {Remove(FullLB, key) : key \in WireKeys}

\* Bodies of a single-resource result.
ExtractBodies ==
    {Null, Str("x"), Arr(<<FullLB>>), Obj(EmptyMap),
     Obj([loadBalancers |-> Arr(<<FullLB>>)]),
     Obj([extra |-> FullLB])}
        \cup {Obj([loadBalancer |-> d]) : d \in LBDocs \cup Probes}
        \cup {Obj([loadBalancer |-> d, extra |-> Num(1)]) :
                  d \in {FullLB, PartLB}}

Errs == {NoErr, TransportErr(1), TransportErr(2)}

Results == {Result(b, e) : b \in ExtractBodies, e \in Errs}

\* Elements of a "loadBalancers" array: well-formed ones, then a field of
\* the wrong kind, a non-object and a null.
GoodElems ==
    {FullLB, PartLB, Obj(EmptyMap), Set(PartLB, "status", Str("Pending_Update"))}
BadElems == {Set(FullLB, "id", Str("x")), Str("x")}
Elems == GoodElems \cup BadElems \cup {Null}

SeqsUpTo(S, n) == UNION {[1..len -> S] : len \in 0..n}

PageBodies ==
    {Null, Str("x"), Arr(<<FullLB>>), Obj(EmptyMap),
     Obj([loadBalancer |-> FullLB]),
     Obj([loadBalancers |-> Null]), Obj([loadBalancers |-> Str("x")]),
     Obj([loadBalancers |-> FullLB]), Obj([links |-> Arr(<<>>)])}
        \cup {Obj([loadBalancers |-> Arr(a)]) : a \in SeqsUpTo(Elems, MaxLBs)}
        \cup {Obj([loadBalancers |-> Arr(a), links |-> Arr(<<>>)]) :
                  a \in SeqsUpTo(GoodElems, 1)}

LBPages == {Page("LBPage", b) : b \in PageBodies}
\* ExtractLBs takes any pagination.Page.
Pages == LBPages \cup {Page("OtherPage", Obj(EmptyMap))}

\* The inputs of the concurrent specification: a few of each shape.
ConcResults ==
    {Result(Obj([loadBalancer |-> FullLB]), NoErr),
     Result(Obj([loadBalancer |-> PartLB]), NoErr),
     Result(Obj([loadBalancer |-> Set(PartLB, "id", Str("x"))]), NoErr),
     Result(Obj([loadBalancer |-> FullLB]), TransportErr(1))}

ConcPages ==
    {Page("LBPage", Obj([loadBalancers |-> Arr(<<FullLB, PartLB>>)])),
     Page("LBPage", Obj([loadBalancers |-> Arr(<<Str("x")>>)]))}

-----------------------------------------------------------------------------
(* The entry points, one action per step of a call.                        *)

Callers == 1..NumCallers

\* Where the locals of c's invocation live: every invocation has its own
\* frame (both `response` and `resp` are declared inside the function).
\* Faulty variant: one package-level variable shared by every invocation.
RespSlotShared(c) == 1

RespSlot(c) == c

\* What a local declared with `var` holds before it is written: the zero
\* value of its type, whatever the storage held.
\* Faulty variant: the record starts from the API's documented defaults.
DeclareWithDefaults(t, old) ==
    IF t = ResponseT
    THEN [LB |-> [Zero(LoadBalancer) EXCEPT !.Algorithm = "RANDOM",
                                            !.Timeout = 30]]
    ELSE Zero(t)

Declare(t, old) == Zero(t)

\* line 235: if r.Err != nil
\* Faulty variant: the test is left out.
PriorErrIgnored(r) == FALSE

PriorErr(r) == r.Err # NoErr

\* line 245: return &response.LB, err
\* Faulty variant: a nil handle whenever the error is set.
ExtractRetNilOnErr(slot, e) ==
    [lb |-> IF e # NoErr THEN NilPtr ELSE Ptr(slot), err |-> e]

\* Faulty variant: the decode error is dropped.
ExtractRetDropErr(slot, e) == [lb |-> Ptr(slot), err |-> NoErr]

ExtractRet(slot, e) == [lb |-> Ptr(slot), err |-> e]

\* lines 210-213 of IsEmpty, on the (is, err) that ExtractLBs returned.
\* Faulty variant: the error is passed on.
IsEmptyRetPropagating(is, e) ==
    IF e # NoErr
    THEN [empty |-> TRUE, err |-> e]
    ELSE [empty |-> (Len(is) = 0), err |-> NoErr]

\* Faulty variant: the length test is inverted.
IsEmptyRetInverted(is, e) ==
    IF e # NoErr
    THEN [empty |-> TRUE, err |-> NoErr]
    ELSE [empty |-> (Len(is) # 0), err |-> NoErr]

IsEmptyRet(is, e) ==
    IF e # NoErr
    THEN [empty |-> TRUE, err |-> NoErr]
    ELSE [empty |-> (Len(is) = 0), err |-> NoErr]

\* The record a handle returned by Extract points to (&response.LB).
Deref(h) == response[h.slot].LB

Init ==
    /\ pc = [c \in Callers |-> "idle"]
    /\ op = [c \in Callers |-> "none"]
    /\ in = [c \in Callers |-> NoInput]
    /\ response = [c \in Callers |-> Unalloc]
    /\ resp = [c \in Callers |-> Unalloc]
    /\ err = [c \in Callers |-> NoErr]
    /\ ret = [c \in Callers |-> NoRet]
    /\ decoded = [c \in Callers |-> FALSE]

\* commonResult.Extract, lines 235-241: the r.Err test, then `var response`.
Extract_Enter(c, r) ==
    /\ pc[c] = "idle"
    /\ op' = [op EXCEPT ![c] = "Extract"]
    /\ in' = [in EXCEPT ![c] = r]
    /\ IF PriorErr(r)
       THEN /\ ret' = [ret EXCEPT ![c] = [lb |-> NilPtr, err |-> r.Err]]
            /\ pc' = [pc EXCEPT ![c] = "done"]
            /\ UNCHANGED response
       ELSE /\ response' = [response EXCEPT ![RespSlot(c)] =
                               Declare(ResponseT, response[RespSlot(c)])]
            /\ pc' = [pc EXCEPT ![c] = "Extract_decode"]
            /\ UNCHANGED ret
    /\ UNCHANGED <<resp, err, decoded>>

\* line 243: err := mapstructure.Decode(r.Body, &response)
Extract_Decode(c) ==
    /\ pc[c] = "Extract_decode"
    /\ LET d == Decode(ResponseT, in[c].Body, response[RespSlot(c)])
       IN  /\ response' = [response EXCEPT ![RespSlot(c)] = d.val]
           /\ err' = [err EXCEPT ![c] = ErrOf(d.errs)]
    /\ decoded' = [decoded EXCEPT ![c] = TRUE]
    /\ pc' = [pc EXCEPT ![c] = "Extract_return"]
    /\ UNCHANGED <<op, in, resp, ret>>

\* line 245: return &response.LB, err
Extract_Return(c) ==
    /\ pc[c] = "Extract_return"
    /\ ret' = [ret EXCEPT ![c] = ExtractRet(RespSlot(c), err[c])]
    /\ pc' = [pc EXCEPT ![c] = "done"]
    /\ UNCHANGED <<op, in, response, resp, err, decoded>>

\* A caller invokes ExtractLBs(page).
ExtractLBs_Call(c, page) ==
    /\ pc[c] = "idle"
    /\ op' = [op EXCEPT ![c] = "ExtractLBs"]
    /\ in' = [in EXCEPT ![c] = page]
    /\ pc' = [pc EXCEPT ![c] = "ExtractLBs_enter"]
    /\ UNCHANGED <<response, resp, err, ret, decoded>>

\* LBPage.IsEmpty, line 209: is, err := ExtractLBs(p).  The receiver is an
\* LBPage by its static type.
IsEmpty_Enter(c, page) ==
    /\ pc[c] = "idle"
    /\ page.type = "LBPage"
    /\ op' = [op EXCEPT ![c] = "IsEmpty"]
    /\ in' = [in EXCEPT ![c] = page]
    /\ pc' = [pc EXCEPT ![c] = "ExtractLBs_enter"]
    /\ UNCHANGED <<response, resp, err, ret, decoded>>

\* ExtractLBs, lines 220-222: `var resp`.
ExtractLBs_Enter(c) ==
    /\ pc[c] = "ExtractLBs_enter"
    /\ resp' = [resp EXCEPT ![RespSlot(c)] =
                   Declare(RespT, resp[RespSlot(c)])]
    /\ pc' = [pc EXCEPT ![c] = "ExtractLBs_decode"]
    /\ UNCHANGED <<op, in, response, err, ret, decoded>>

\* line 224: err := mapstructure.Decode(page.(LBPage).Body, &resp).  The
\* type assertion panics on a Page that is no LBPage.
ExtractLBs_Decode(c) ==
    /\ pc[c] = "ExtractLBs_decode"
    /\ IF in[c].type # "LBPage"
       THEN /\ pc' = [pc EXCEPT ![c] = "panic"]
            /\ UNCHANGED <<resp, err, decoded>>
       ELSE /\ LET d == Decode(RespT, in[c].Body, resp[RespSlot(c)])
               IN  /\ resp' = [resp EXCEPT ![RespSlot(c)] = d.val]
                   /\ err' = [err EXCEPT ![c] = ErrOf(d.errs)]
            /\ decoded' = [decoded EXCEPT ![c] = TRUE]
            /\ pc' = [pc EXCEPT ![c] = "ExtractLBs_return"]
    /\ UNCHANGED <<op, in, response, ret>>

\* line 226: return resp.LBs, err -- to the caller, or into IsEmpty.
ExtractLBs_Return(c) ==
    /\ pc[c] = "ExtractLBs_return"
    /\ ret' = [ret EXCEPT ![c] =
                  [lbs |-> resp[RespSlot(c)].LBs, err |-> err[c]]]
    /\ pc' = [pc EXCEPT ![c] =
                 IF op[c] = "IsEmpty" THEN "IsEmpty_check" ELSE "done"]
    /\ UNCHANGED <<op, in, response, resp, err, decoded>>

\* LBPage.IsEmpty, lines 210-213, on the (is, err) ExtractLBs returned.
IsEmpty_Return(c) ==
    /\ pc[c] = "IsEmpty_check"
    /\ ret' = [ret EXCEPT ![c] = IsEmptyRet(ret[c].lbs, ret[c].err)]
    /\ pc' = [pc EXCEPT ![c] = "done"]
    /\ UNCHANGED <<op, in, response, resp, err, decoded>>

\* Storage is reclaimed once no invocation and no returned handle of
\* another flow refers to it.
Referenced(slot, c) ==
    \E c2 \in Callers \ {c} : pc[c2] # "idle" /\ RespSlot(c2) = slot

Release(store, c) ==
    IF Referenced(RespSlot(c), c)
    THEN store
    ELSE [store EXCEPT ![RespSlot(c)] = Unalloc]

\* The caller is finished with what it got (or has recovered the panic);
\* the invocation's storage is released and the flow makes its next call.
Reset(c) ==
    /\ pc[c] \in {"done", "panic"}
    /\ pc' = [pc EXCEPT ![c] = "idle"]
    /\ op' = [op EXCEPT ![c] = "none"]
    /\ in' = [in EXCEPT ![c] = NoInput]
    /\ err' = [err EXCEPT ![c] = NoErr]
    /\ ret' = [ret EXCEPT ![c] = NoRet]
    /\ decoded' = [decoded EXCEPT ![c] = FALSE]
    /\ response' = Release(response, c)
    /\ resp' = Release(resp, c)

Step(c, results, pages) ==
    \/ \E r \in results : Extract_Enter(c, r)
    \/ Extract_Decode(c)
    \/ Extract_Return(c)
    \/ \E p \in pages : ExtractLBs_Call(c, p)
    \/ \E p \in pages : IsEmpty_Enter(c, p)
    \/ ExtractLBs_Enter(c)
    \/ ExtractLBs_Decode(c)
    \/ ExtractLBs_Return(c)
    \/ IsEmpty_Return(c)
    \/ Reset(c)

\* One request flow, every enumerated input.
Next == Step(1, Results, Pages)

Spec == Init /\ [][Next]_vars

\* NumCallers request flows interleaved step by step.
NextConc == \E c \in Callers : Step(c, ConcResults, ConcPages)

SpecConc == Init /\ [][NextConc]_vars

-----------------------------------------------------------------------------
(* The documented vocabularies and wire format, used to state the          *)
(* properties.                                                             *)

ProtocolVocab ==
    {"DNS_TCP", "DNS_UDP", "TCP", "TCP_CLIENT_FIRST", "UDP", "UDP_STREAM"}
AlgorithmVocab ==
    {"LEAST_CONNECTIONS", "RANDOM", "ROUND_ROBIN",
     "WEIGHTED_LEAST_CONNECTIONS", "WEIGHTED_ROUND_ROBIN"}
StatusVocab ==
    {"ACTIVE", "BUILD", "PENDING_UPDATE", "PENDING_DELETE", "SUSPENDED",
     "ERROR", "DELETED"}

\* The key each field has in a response document, by Go field name.
WireTab ==
    [Name |-> "name", ID |-> "id", Protocol |-> "protocol",
     Algorithm |-> "algorithm", Status |-> "status",
     NodeCount |-> "nodeCount", VIPs |-> "virtualIps",
     Created |-> "created", Updated |-> "updated", Port |-> "port",
     HalfClosed |-> "halfClosed", Timeout |-> "timeout",
     Cluster |-> "cluster", Nodes |-> "nodes",
     ConnectionLogging |-> "connectionLogging",
     SessionPersistence |-> "sessionPersistence",
     ConnectionThrottle |-> "connectionThrottle",
     SourceAddrs |-> "sourceAddresses",
     Time |-> "time", Enabled |-> "enabled", Type |-> "persistenceType",
     MinConns |-> "minConnections", MaxConns |-> "maxConnections",
     MaxConnRate |-> "maxConnectionRate", RateInterval |-> "rateInterval",
     IPv4Public |-> "ipv4Public", IPv4Private |-> "ipv4Servicenet",
     IPv6Public |-> "ipv6Public", IPv6Private |-> "ipv6Servicenet",
     LB |-> "loadBalancer", LBs |-> "loadBalancers"]

WireKey(f) == WireTab[f.name]

\* A document of the documented shape for type t: every value of the
\* documented kind, numbers whole, no key but the documented ones.
RECURSIVE WellFormed(_, _)
WellFormed(t, data) ==
    CASE t.k = "string" -> data.k = "str"
      [] t.k = "int" -> data.k = "num" /\ data.h % 2 = 0
      [] t.k = "bool" -> data.k = "bool"
      [] t.k = "slice" ->
            /\ data.k = "arr"
            /\ \A i \in 1..Len(data.a) : WellFormed(t.elem, data.a[i])
      [] t.k = "struct" ->
            /\ data.k = "obj"
            /\ \A key \in DOMAIN data.m :
                  \E i \in 1..Len(t.fields) :
                      /\ WireKey(t.fields[i]) = key
                      /\ WellFormed(t.fields[i].type, data.m[key])

\* Go value v, read back field by field, gives the values of document data;
\* a field whose key the document lacks is zero.
RECURSIVE Matches(_, _, _)
Matches(t, data, v) ==
    CASE t.k = "string" -> v = data.s
      [] t.k = "int" -> 2 * v = data.h
      [] t.k = "bool" -> v = data.b
      [] t.k = "slice" ->
            /\ Len(v) = Len(data.a)
            /\ \A i \in 1..Len(data.a) : Matches(t.elem, data.a[i], v[i])
      [] t.k = "struct" ->
            \A i \in 1..Len(t.fields) :
                LET f == t.fields[i]
                IN  IF WireKey(f) \in DOMAIN data.m
                    THEN Matches(f.type, data.m[WireKey(f)], v[f.name])
                    ELSE v[f.name] = Zero(f.type)

\* Document data holds, where a value of type t is read from it, a
\* non-null value of the wrong kind.
RECURSIVE WrongKind(_, _)
WrongKind(t, data) ==
    /\ data.k # "null"
    /\ CASE t.k = "string" -> data.k # "str"
         [] t.k = "int" -> data.k # "num"
         [] t.k = "bool" -> data.k # "bool"
         [] t.k = "slice" ->
               \/ data.k # "arr"
               \/ \E i \in 1..Len(data.a) : WrongKind(t.elem, data.a[i])
         [] t.k = "struct" ->
               \/ data.k # "obj"
               \/ \E i \in 1..Len(t.fields) :
                     LET hit == Lookup(data.m, KeyName(t.fields[i]))
                     IN  /\ hit # {}
                         /\ WrongKind(t.fields[i].type,
                                      data.m[CHOOSE key \in hit : TRUE])

\* Document data without the keys that no field of t reads, at every depth.
RECURSIVE Strip(_, _)
Strip(t, data) ==
    IF t.k = "struct" /\ data.k = "obj"
    THEN LET FieldOf(key) ==
                 {i \in 1..Len(t.fields) :
                      Lower(WireKey(t.fields[i])) = Lower(key)}
             known == {key \in DOMAIN data.m : FieldOf(key) # {}}
         IN  Obj([key \in known |->
                     Strip(t.fields[CHOOSE i \in FieldOf(key) : TRUE].type,
                           data.m[key])])
    ELSE IF t.k = "slice" /\ data.k = "arr"
    THEN Arr([i \in 1..Len(data.a) |-> Strip(t.elem, data.a[i])])
    ELSE data

Done(c, o) == pc[c] = "done" /\ op[c] = o

\* c's call of Extract has returned, on a result without transport error.
Extracted(c) == Done(c, "Extract") /\ in[c].Err = NoErr

\* The body of c's input is an object holding, under key `env`, value d.
Wraps(c, env, d) ==
    /\ in[c].Body.k = "obj"
    /\ env \in DOMAIN in[c].Body.m
    /\ in[c].Body.m[env] = d

\* The value under key `env` of the body of c's input, an object with it.
HasEnvelope(c, env) == in[c].Body.k = "obj" /\ env \in DOMAIN in[c].Body.m
Payload(c, env) == in[c].Body.m[env]

-----------------------------------------------------------------------------
(* The properties.                                                         *)

\* C1: a call of Extract on a result whose Err is set, whatever its body,
\* has returned at once with that same error and a nil handle, and never
\* ran the decoder.
C1_TransportErrorPropagated ==
    \A c \in Callers :
        (op[c] = "Extract" /\ in[c].Err # NoErr) =>
            /\ pc[c] = "done"
            /\ ret[c] = [lb |-> NilPtr, err |-> in[c].Err]
            /\ ~decoded[c]

\* C1 witness: Extract has returned on a result with a transport error and
\* a well-formed body.
C1_Witness ==
    \E c \in Callers :
        /\ Done(c, "Extract")
        /\ in[c] = Result(Obj([loadBalancer |-> FullLB]), TransportErr(2))
        /\ ret[c].err = TransportErr(2)
        /\ ret[c].lb = NilPtr

C3_IsEmptyNeverFails ==
    \A c \in Callers :
        Done(c, "IsEmpty") =>
            /\ ret[c].err = NoErr
            /\ (err[c] # NoErr \/ WrongKind(RespT, in[c].Body)) =>
                   ret[c] = [empty |-> TRUE, err |-> NoErr]

\* C3 witness: IsEmpty has returned (true, nil) on a page whose array holds
\* a well-formed element and a string, on which ExtractLBs failed.
C3_Witness ==
    \E c \in Callers :
        /\ Done(c, "IsEmpty")
        /\ Wraps(c, "loadBalancers", Arr(<<FullLB, Str("x")>>))
        /\ err[c].kind = "decode"
        /\ Len(resp[RespSlot(c)].LBs) = 2
        /\ ret[c] = [empty |-> TRUE, err |-> NoErr]

\* C4: on an LBPage whose "loadBalancers" array holds N well-formed
\* elements, ExtractLBs returns a nil error and N records, record i being
\* the decoding of element i and carrying its values.
C4_OrderPreserved ==
    \A c \in Callers :
        (/\ Done(c, "ExtractLBs")
         /\ HasEnvelope(c, "loadBalancers")
         /\ WellFormed(TSlice(LoadBalancer), Payload(c, "loadBalancers"))) =>
            LET a == Payload(c, "loadBalancers").a
            IN  /\ ret[c].err = NoErr
                /\ Len(ret[c].lbs) = Len(a)
                /\ \A i \in 1..Len(a) :
                      /\ Matches(LoadBalancer, a[i], ret[c].lbs[i])
                      /\ ret[c].lbs[i] =
                             Decode(LoadBalancer, a[i],
                                    Zero(LoadBalancer)).val

\* C4 witness: ExtractLBs has returned two different records in the order
\* of the array.
C4_Witness ==
    \E c \in Callers :
        /\ Done(c, "ExtractLBs")
        /\ Wraps(c, "loadBalancers", Arr(<<FullLB, PartLB>>))
        /\ ret[c].err = NoErr
        /\ Len(ret[c].lbs) = 2
        /\ ret[c].lbs[1].ID = 2000
        /\ ret[c].lbs[2].ID = 12345

\* C5: on an LBPage whose body has an empty "loadBalancers" array or no
\* such key, ExtractLBs returns an empty sequence and a nil error, and
\* IsEmpty returns (true, nil).
C5_EmptyOrAbsent ==
    \A c \in Callers :
        (/\ pc[c] = "done"
         /\ op[c] \in {"ExtractLBs", "IsEmpty"}
         /\ in[c].Body.k = "obj"
         /\ \/ "loadBalancers" \notin DOMAIN in[c].Body.m
            \/ in[c].Body.m["loadBalancers"] = Arr(<<>>)) =>
            /\ op[c] = "ExtractLBs" => ret[c] = [lbs |-> <<>>, err |-> NoErr]
            /\ op[c] = "IsEmpty" => ret[c] = [empty |-> TRUE, err |-> NoErr]

\* C5 witness: IsEmpty has returned (true, nil) on a page whose body has
\* other keys but no "loadBalancers".
C5_Witness ==
    \E c \in Callers :
        /\ Done(c, "IsEmpty")
        /\ in[c].Body = Obj([links |-> Arr(<<>>)])
        /\ decoded[c]
        /\ ret[c] = [empty |-> TRUE, err |-> NoErr]

\* C6: on a well-formed document carrying every documented key under
\* "loadBalancer", Extract returns a nil error and a record that, read
\* back, gives the document's values, nested records included.
C6_RoundTrip ==
    \A c \in Callers :
        (/\ Extracted(c)
         /\ HasEnvelope(c, "loadBalancer")
         /\ WellFormed(LoadBalancer, Payload(c, "loadBalancer"))
         /\ DOMAIN Payload(c, "loadBalancer").m = WireKeys) =>
            /\ ret[c].err = NoErr
            /\ ret[c].lb # NilPtr
            /\ Matches(LoadBalancer, Payload(c, "loadBalancer"),
                       Deref(ret[c].lb))

\* C6 witness: Extract has returned the record of the full document.
C6_Witness ==
    \E c \in Callers :
        /\ Extracted(c)
        /\ Wraps(c, "loadBalancer", FullLB)
        /\ ret[c].err = NoErr
        /\ Deref(ret[c].lb).ID = 2000
        /\ Deref(ret[c].lb).NodeCount = 1
        /\ Deref(ret[c].lb).HalfClosed
        /\ Len(Deref(ret[c].lb).VIPs) = 2
        /\ Deref(ret[c].lb).SourceAddrs.IPv4Private = "10.0.0.0"

\* C7: a string given for protocol, algorithm or status, inside the
\* documented vocabulary or not, is decoded by Extract and by ExtractLBs
\* into the field unchanged, and is no cause of error.
C7_EnumPassThrough ==
    LET Kept(d, lb) ==
            /\ ("protocol" \in DOMAIN d.m /\ d.m["protocol"].k = "str") =>
                   lb.Protocol = d.m["protocol"].s
            /\ ("algorithm" \in DOMAIN d.m /\ d.m["algorithm"].k = "str") =>
                   lb.Algorithm = d.m["algorithm"].s
            /\ ("status" \in DOMAIN d.m /\ d.m["status"].k = "str") =>
                   lb.Status = d.m["status"].s
    IN  \A c \in Callers :
            /\ (/\ Extracted(c)
                /\ HasEnvelope(c, "loadBalancer")
                /\ Payload(c, "loadBalancer").k = "obj") =>
                   /\ Kept(Payload(c, "loadBalancer"), Deref(ret[c].lb))
                   /\ WellFormed(LoadBalancer, Payload(c, "loadBalancer")) =>
                          ret[c].err = NoErr
            /\ (/\ Done(c, "ExtractLBs")
                /\ HasEnvelope(c, "loadBalancers")
                /\ Payload(c, "loadBalancers").k = "arr") =>
                   LET a == Payload(c, "loadBalancers").a
                   IN  /\ \A i \in 1..Len(a) :
                             a[i].k = "obj" => Kept(a[i], ret[c].lbs[i])
                       /\ WellFormed(TSlice(LoadBalancer),
                                     Payload(c, "loadBalancers")) =>
                              ret[c].err = NoErr

\* C7 witness: Extract has returned a record whose Protocol is "tcp", a
\* string outside the documented vocabulary, with a nil error.
C7_Witness ==
    \E c \in Callers :
        /\ Extracted(c)
        /\ Wraps(c, "loadBalancer", Set(FullLB, "protocol", Str("tcp")))
        /\ "tcp" \notin ProtocolVocab
        /\ ret[c].err = NoErr
        /\ Deref(ret[c].lb).Protocol = "tcp"

C9_OnlyFromDocument ==
    \A c \in Callers :
        (/\ Extracted(c)
         /\ HasEnvelope(c, "loadBalancer")
         /\ Payload(c, "loadBalancer").k = "obj") =>
            LET d == Payload(c, "loadBalancer")
                lb == Deref(ret[c].lb)
                bare == Decode(ResponseT, Strip(ResponseT, in[c].Body),
                               Zero(ResponseT))
            IN  /\ \A i \in 1..Len(LoadBalancer.fields) :
                      LET f == LoadBalancer.fields[i]
                      IN  (\A key \in DOMAIN d.m :
                               Lower(key) # Lower(WireKey(f))) =>
                              lb[f.name] = Zero(f.type)
                /\ lb = bare.val.LB
                /\ ret[c].err = ErrOf(bare.errs)

\* C9 witness: Extract has returned the record of a document that lacks
\* "algorithm" and "timeout" and holds an unread key: both fields are zero
\* and there is no error.
C9_Witness ==
    \E c \in Callers :
        /\ Extracted(c)
        /\ Wraps(c, "loadBalancer", SparseLB)
        /\ "extra" \in DOMAIN Payload(c, "loadBalancer").m
        /\ ret[c].err = NoErr
        /\ Deref(ret[c].lb).Algorithm = ""
        /\ Deref(ret[c].lb).Timeout = 0
        /\ Deref(ret[c].lb).VIPs = <<>>
        /\ Deref(ret[c].lb).ID = 7

\* C10: the handle Extract returns is nil exactly when the result carries
\* a transport error; with a decode error the handle is not nil.
C10_NilHandleIffTransportError ==
    \A c \in Callers :
        Done(c, "Extract") =>
            /\ ret[c].lb = NilPtr <=> in[c].Err # NoErr
            /\ ret[c].err.kind = "decode" => ret[c].lb # NilPtr

\* C10 witness: Extract has returned a decode error together with a
\* handle that is not nil.
C10_Witness ==
    \E c \in Callers :
        /\ Done(c, "Extract")
        /\ in[c] = Result(Obj([loadBalancer |-> Str("TCP")]), NoErr)
        /\ ret[c].err.kind = "decode"
        /\ ret[c].lb = Ptr(RespSlot(c))

=============================================================================
